---- MODULE Spec2Model ----
(***************************************************************************)
(* Model of the womenswc feature pipeline.                                 *)
(*                                                                         *)
(*   features.main            : expweights_list, build_features, to_parquet*)
(*   build_base_dataset       : matchdict (normalizer), main (builder)     *)
(*                                                                         *)
(* Numbers.  The aggregates are floating point values of the form          *)
(* v * 2^(-days/half_life).  The model draws start dates that are whole    *)
(* multiples of half_life days, so every weight is a power of two and all  *)
(* products and quotients of the code are exact; a value x is held as the  *)
(* integer x * Scale (fixed point, Scale a power of two).                   *)
(*                                                                         *)
(* A pandas Series / numpy array of N rows is a sequence 1..N (row i of    *)
(* the model is index i-1 of the code).                                    *)
(***************************************************************************)
EXTENDS Integers, Sequences, FiniteSets, TLC

\* ------------------------------------------------------------------ bounds
\* rows of the base table
MaxRows == 3

\* half_life of features.main, in days
HalfLife == 180

\* ------------------------------------------------------------- arithmetic
RECURSIVE Pow2(_)
Pow2(e) == IF e <= 0 THEN 1 ELSE 2 * Pow2(e - 1)

\* largest days / half_life any table of the model reaches: a row is at
\* most one half-life after the row before it
MaxExp == MaxRows

Scale == Pow2(MaxExp)

Range(s) == {s[i] : i \in 1..Len(s)}

MinOf(S) == CHOOSE x \in S : \A y \in S : x <= y

\* an array holds its elements: the same sequence, evaluated once
Array(x) == x \o <<>>

\* Python's int(bool)
BoolInt(b) == IF b THEN 1 ELSE 0

\* ------------------------------------------------------------ input tables
\* team names, in lexicographic order
TeamNames == <<"Australia", "England", "India">>

Rank(t) == CHOOSE k \in 1..Len(TeamNames) : TeamNames[k] = t

\* the fixtures of the base table; team_0 < team_1 in every row (matchdict
\* sorts), and England is team_1 of one fixture and team_0 of the other
Pairs == {<<"Australia", "England">>, <<"England", "India">>}

\* final scores, result and venue of a match as the base table holds them
Sheets ==
    { [runs_0 |-> 3, wickets_0 |-> 1, deliveries_0 |-> 2,
       runs_1 |-> 2, wickets_1 |-> 0, deliveries_1 |-> 3,
       result |-> 0, country |-> "Australia"],
      [runs_0 |-> 1, wickets_0 |-> 2, deliveries_0 |-> 3,
       runs_1 |-> 4, wickets_1 |-> 1, deliveries_1 |-> 2,
       result |-> 1, country |-> "Sri Lanka"] }

\* half-lives between a match and the one before it (the first: after day 0)
Steps == {0, 1}

RowChoices == [pair : Pairs, step : Steps, sheet : Sheets]

RECURSIVE StepsTo(_, _)
StepsTo(ch, i) == IF i = 0 THEN 0 ELSE StepsTo(ch, i - 1) + ch[i].step

\* the base table a sequence of choices stands for: rows in chronological
\* order (main of build_base_dataset sorts by start_date), start_date in days
MkTable(ch) ==
    [i \in 1..Len(ch) |->
        [team_0 |-> ch[i].pair[1], team_1 |-> ch[i].pair[2],
         start_date |-> HalfLife * StepsTo(ch, i),
         runs_0 |-> ch[i].sheet.runs_0, wickets_0 |-> ch[i].sheet.wickets_0,
         deliveries_0 |-> ch[i].sheet.deliveries_0,
         runs_1 |-> ch[i].sheet.runs_1, wickets_1 |-> ch[i].sheet.wickets_1,
         deliveries_1 |-> ch[i].sheet.deliveries_1,
         result |-> ch[i].sheet.result, country |-> ch[i].sheet.country]]

Tables == UNION {{MkTable(ch) : ch \in [1..n -> RowChoices]} : n \in 1..MaxRows}

\* data/teams_list.json: the team universe handed to build_features
TeamLists ==
    { <<"India", "Australia", "England">>,
      <<"Australia", "England">> }

VARIABLES
    base_df,        \* features.main: the base table read from parquet
    teams,          \* features.main: teams_list.json
    weight,         \* features.main: expweights_list(base_df)
    weighted_stats, \* build_features: weighted_agg_stats(...)
    filter_zeros,   \* build_features: drop_zeros_in_denominator(...)
    df,             \* build_features: the local feature table
    ret,            \* build_features: the value it returns
    pc,             \* features.main: position
    match_data,     \* matchdict: the raw match record (json.load of one file)
    rec,            \* matchdict: what the call returned or raised
    raw_files,      \* build_base_dataset.main: the match files, as the flat
                    \* record get_match_data_ makes of each
    outputs         \* build_base_dataset.main: the base table of each run

featVars == <<base_df, teams, weight, weighted_stats, filter_zeros, df, ret, pc>>

normVars == <<match_data, rec>>

buildVars == <<raw_files, outputs>>

vars == <<featVars, normVars, buildVars>>

\* ------------------------------------------------ element-wise arithmetic
\* pandas / numpy operators on whole arrays
Plus(a, b) == Array([i \in 1..Len(a) |-> a[i] + b[i]])

Minus(a, b) == Array([i \in 1..Len(a) |-> a[i] - b[i]])

Times(a, b) == Array([i \in 1..Len(a) |-> a[i] * b[i]])

\* ser / weight: plain numbers over weights held as w * Scale
Over(a, w) == Array([i \in 1..Len(a) |-> (a[i] * Scale) \div w[i]])

\* a boolean array used as a number
Ints(mask) == Array([i \in 1..Len(mask) |-> BoolInt(mask[i])])

\* col == v
Eq(col, v) == Array([i \in 1..Len(col) |-> col[i] = v])

\* a == b, row by row
Eq2(a, b) == Array([i \in 1..Len(a) |-> a[i] = b[i]])

Or(a, b) == Array([i \in 1..Len(a) |-> a[i] \/ b[i]])

Not(a) == Array([i \in 1..Len(a) |-> ~a[i]])

Fill(v, n) == Array([i \in 1..n |-> v])

\* ------------------------------------------------------------ weights_util
\* base_df[f"{column}_{n}"]
Column(bdf, column, n) ==
    Array([i \in 1..Len(bdf) |->
        CASE column = "runs" -> IF n = 0 THEN bdf[i].runs_0 ELSE bdf[i].runs_1
          [] column = "wickets" ->
                IF n = 0 THEN bdf[i].wickets_0 ELSE bdf[i].wickets_1
          [] column = "deliveries" ->
                IF n = 0 THEN bdf[i].deliveries_0 ELSE bdf[i].deliveries_1
          [] column = "team" -> IF n = 0 THEN bdf[i].team_0 ELSE bdf[i].team_1
          [] column = "start_date" -> bdf[i].start_date
          [] column = "result" -> bdf[i].result
          [] column = "country" -> bdf[i].country])

\* np.exp2(-k * days) with k = 1 / half_life, as x * Scale
exp2neg(days, half_life) ==
    Array([i \in 1..Len(days) |-> Scale \div Pow2(days[i] \div half_life)])

expweights_list_nodecay(bdf, half_life) == Fill(Scale, Len(bdf))

expweights_list(bdf, half_life) ==
    LET date_min == MinOf(Range(Column(bdf, "start_date", 0)))
    IN  exp2neg(Minus(Column(bdf, "start_date", 0), Fill(date_min, Len(bdf))),
                half_life)

CumsumExtend(p, v) == Append(p, (IF Len(p) = 0 THEN 0 ELSE p[Len(p)]) + v)

RECURSIVE CumsumTo(_, _)
CumsumTo(x, i) == IF i = 0 THEN <<>> ELSE CumsumExtend(CumsumTo(x, i - 1), x[i])

\* x.cumsum()
cumsum(x) == CumsumTo(x, Len(x))

custom_cumsum_inclusive(x) == cumsum(x)

custom_cumsum(x) == Minus(cumsum(x), x)

\* the masks build_features makes: is_team_n[team] = (base_df.team_n == team)
is_team(bdf, tms, n) == [team \in Range(tms) |-> Eq(Column(bdf, "team", n), team)]

\* ser[team] = ser_0 * is_team_0[team] + ser_1 * is_team_1[team]
TeamValues(ser_0, ser_1, mask_0, mask_1) ==
    Plus(Times(ser_0, Ints(mask_0)), Times(ser_1, Ints(mask_1)))

\* one team's column of weighted_cumsum: weight * custom_cumsum(ser[team] / weight)
TeamSeries(ser_0, ser_1, wt, mask_0, mask_1) ==
    Times(wt, custom_cumsum(Over(TeamValues(ser_0, ser_1, mask_0, mask_1), wt)))

\* np.array(cols).transpose()
Transpose(cols, nrows) ==
    Array([i \in 1..nrows |-> Array([k \in 1..Len(cols) |-> cols[k][i]])])

\* rows are matches, columns are the teams of the list: a[i][k]
weighted_cumsum(ser_0, ser_1, wt, tms, is_team_0, is_team_1) ==
    Transpose(Array([k \in 1..Len(tms) |->
                  TeamSeries(ser_0, ser_1, wt, is_team_0[tms[k]], is_team_1[tms[k]])]),
              Len(wt))

\* pd.Index(teams).get_indexer(col): the position of each name, -1 when absent
get_indexer(tms, col) ==
    Array([i \in 1..Len(col) |->
              IF \E k \in 1..Len(tms) : tms[k] = col[i]
              THEN (CHOOSE k \in 1..Len(tms) : tms[k] = col[i]) - 1
              ELSE -1])

indexer(bdf, tms, n) == get_indexer(tms, Column(bdf, "team", n))

\* a[np.arange(N), idx]: numpy counts a negative index from the end
FancyIndex(a, idx) ==
    Array([i \in 1..Len(idx) |->
              a[i][(IF idx[i] < 0 THEN idx[i] + Len(a[i]) ELSE idx[i]) + 1]])

weighted_cumsum_column(bdf, column, wt, tms, is_team_0, is_team_1, is_bowling_side, n) ==
    FancyIndex(weighted_cumsum(Column(bdf, column, BoolInt(is_bowling_side)),
                               Column(bdf, column, 1 - BoolInt(is_bowling_side)),
                               wt, tms, is_team_0, is_team_1),
               indexer(bdf, tms, n))

Stats == {"runs_scored", "wickets_lost", "deliveries_played",
          "runs_conceded", "wickets_taken", "deliveries_bowled", "wins", "matches"}

batting_side_dict(stat) ==
    CASE stat = "runs_scored" -> "runs" [] stat = "wickets_lost" -> "wickets"
      [] stat = "deliveries_played" -> "deliveries"

bowling_side_dict(stat) ==
    CASE stat = "runs_conceded" -> "runs" [] stat = "wickets_taken" -> "wickets"
      [] stat = "deliveries_bowled" -> "deliveries"

\* weighted_stats[f"{stat}_{n}"] is ws[stat][n]
weighted_agg_stats(bdf, wt, tms, is_team_0, is_team_1) ==
    [stat \in Stats |-> [n \in {0, 1} |->
        CASE stat \in {"runs_scored", "wickets_lost", "deliveries_played"} ->
                weighted_cumsum_column(bdf, batting_side_dict(stat), wt, tms,
                                       is_team_0, is_team_1, FALSE, n)
          [] stat \in {"runs_conceded", "wickets_taken", "deliveries_bowled"} ->
                weighted_cumsum_column(bdf, bowling_side_dict(stat), wt, tms,
                                       is_team_0, is_team_1, TRUE, n)
          [] stat = "wins" ->
                FancyIndex(weighted_cumsum(Ints(Eq(Column(bdf, "result", 0), 0)),
                                           Ints(Eq(Column(bdf, "result", 0), 1)),
                                           wt, tms, is_team_0, is_team_1),
                           indexer(bdf, tms, n))
          [] stat = "matches" ->
                FancyIndex(weighted_cumsum(Fill(1, Len(bdf)), Fill(1, Len(bdf)),
                                           wt, tms, is_team_0, is_team_1),
                           indexer(bdf, tms, n))]]

\* (a == 0) | (b == 0) | (c == 0) | (d == 0) | (e == 0) for side n
AnyZero(ws, n) ==
    Or(Or(Or(Or(Eq(ws["wickets_lost"][n], 0), Eq(ws["deliveries_played"][n], 0)),
             Eq(ws["wickets_taken"][n], 0)),
          Eq(ws["deliveries_bowled"][n], 0)),
       Eq(ws["matches"][n], 0))

drop_zeros_side0_only(bdf, wt, tms, is_team_0, is_team_1) ==
    Not(Or(Fill(FALSE, Len(bdf)),
           AnyZero(weighted_agg_stats(bdf, wt, tms, is_team_0, is_team_1), 0)))

\* the loop over n recomputes weighted_agg_stats each time round
drop_zeros_in_denominator(bdf, wt, tms, is_team_0, is_team_1) ==
    Not(Or(Or(Fill(FALSE, Len(bdf)),
              AnyZero(weighted_agg_stats(bdf, wt, tms, is_team_0, is_team_1), 0)),
           AnyZero(weighted_agg_stats(bdf, wt, tms, is_team_0, is_team_1), 1)))

\* --------------------------------------------------------------- features
MaskExtend(p, keep, v) == IF keep THEN Append(p, v) ELSE p

RECURSIVE MaskTo(_, _, _)
MaskTo(x, mask, i) ==
    IF i = 0 THEN <<>> ELSE MaskExtend(MaskTo(x, mask, i - 1), mask[i], x[i])

\* arr[filter_zeros]: the entries of x at the rows the mask keeps
Mask(x, mask) == MaskTo(x, mask, Len(x))

home_advantage(bdf, n) ==
    Minus(Ints(Eq2(Column(bdf, "team", n), Column(bdf, "country", 0))),
          Ints(Eq2(Column(bdf, "team", BoolInt(~(n = 1))), Column(bdf, "country", 0))))

\* c * a / b of two arrays, element by element, kept as an exact fraction
Quotient(c, a, b) == Array([i \in 1..Len(a) |-> [num |-> c * a[i], den |-> b[i]]])

\* weighted_stats["matches_{n}"]: the key is not an f-string, so it is the
\* literal text, and weighted_agg_stats makes no such key
win_percentage(ws, n, fz) ==
    IF "matches_{n}" \in DOMAIN ws
    THEN [raised |-> "none",
          value |-> Quotient(100, Mask(ws["wins"][n], fz), Mask(ws["matches_{n}"], fz))]
    ELSE [raised |-> "KeyError", value |-> <<>>]

batting_average(ws, n, fz) ==
    Quotient(1, Mask(ws["runs_scored"][n], fz), Mask(ws["wickets_lost"][n], fz))

batting_strike_rate(ws, n, fz) ==
    Quotient(100, Mask(ws["runs_scored"][n], fz), Mask(ws["deliveries_played"][n], fz))

bowling_average(ws, n, fz) ==
    Quotient(1, Mask(ws["runs_conceded"][n], fz), Mask(ws["wickets_taken"][n], fz))

bowling_economy(ws, n, fz) ==
    Quotient(6, Mask(ws["runs_conceded"][n], fz), Mask(ws["deliveries_bowled"][n], fz))

\* numpy's rint of p / q: to the nearest integer, a tie to the even one
RoundHalfEven(p, q) ==
    IF 2 * (p % q) < q THEN p \div q
    ELSE IF 2 * (p % q) > q THEN (p \div q) + 1
    ELSE IF (p \div q) % 2 = 0 THEN p \div q ELSE (p \div q) + 1

\* df.round(decimals=2) of a column of fractions, in hundredths; x / 0 is
\* inf, 0 / 0 is nan
Round2(x) ==
    Array([i \in 1..Len(x) |->
        IF x[i].den = 0
        THEN [kind |-> IF x[i].num = 0 THEN "nan" ELSE "inf", hundredths |-> 0]
        ELSE [kind |-> "finite",
              hundredths |-> RoundHalfEven(100 * x[i].num, x[i].den)]])

RatioColumns == {"batting_average", "batting_sr", "bowling_average", "bowling_economy"}

\* the table build_features assembles, column by column: one entry per kept
\* row of base_df, index the row's position in base_df
FeatureTable(bdf, ws, fz) ==
    [kind |-> "DataFrame",
     index |-> Mask([i \in 1..Len(bdf) |-> i], fz),
     team_0 |-> Mask(Column(bdf, "team", 0), fz),
     team_1 |-> Mask(Column(bdf, "team", 1), fz),
     home_adv |-> [n \in {0, 1} |-> Mask(home_advantage(bdf, n), fz)],
     ratios |-> [c \in RatioColumns |-> [n \in {0, 1} |->
        Round2(CASE c = "batting_average" -> batting_average(ws, n, fz)
                 [] c = "batting_sr" -> batting_strike_rate(ws, n, fz)
                 [] c = "bowling_average" -> bowling_average(ws, n, fz)
                 [] c = "bowling_economy" -> bowling_economy(ws, n, fz))]]]

NoneValue == [kind |-> "None"]

\* ----------------------------------------------------------- idle parts
\* each specification runs one program; the state of the others stays put
FeaturesIdle ==
    /\ base_df = <<>>
    /\ teams = <<>>
    /\ weight = <<>>
    /\ weighted_stats = <<>>
    /\ filter_zeros = <<>>
    /\ df = NoneValue
    /\ ret = NoneValue
    /\ pc = "idle"

NormIdle ==
    /\ match_data = [info |-> <<>>, innings |-> <<>>]
    /\ rec = [raised |-> "idle"]

BuildIdle ==
    /\ raw_files = <<>>
    /\ outputs = <<>>

\* ------------------------------------------------- features.main, stepwise
InitFeatures ==
    /\ base_df \in Tables
    /\ teams \in TeamLists
    /\ weight = <<>>
    /\ weighted_stats = <<>>
    /\ filter_zeros = <<>>
    /\ df = NoneValue
    /\ ret = NoneValue
    /\ pc = "read"
    /\ NormIdle
    /\ BuildIdle

\* weight = expweights_list(base_df, half_life=180)
ExpWeights ==
    /\ pc = "read"
    /\ weight' = expweights_list(base_df, HalfLife)
    /\ pc' = "weighted"
    /\ UNCHANGED <<base_df, teams, weighted_stats, filter_zeros, df, ret>>
    /\ UNCHANGED <<normVars, buildVars>>

\* df = build_features(base_df, teams, weight): the function builds its
\* local table and ends without a return statement
BuildFeatures ==
    /\ pc = "weighted"
    /\ LET is_team_0 == is_team(base_df, teams, 0)
           is_team_1 == is_team(base_df, teams, 1)
       IN  /\ weighted_stats' =
                  weighted_agg_stats(base_df, weight, teams, is_team_0, is_team_1)
           /\ filter_zeros' =
                  drop_zeros_in_denominator(base_df, weight, teams, is_team_0, is_team_1)
           /\ df' = FeatureTable(base_df, weighted_stats', filter_zeros')
    /\ ret' = NoneValue
    /\ pc' = "built"
    /\ UNCHANGED <<base_df, teams, weight>>
    /\ UNCHANGED <<normVars, buildVars>>

\* df.to_parquet(...) on the value build_features returned
ToParquet ==
    /\ pc = "built"
    /\ pc' = IF ret.kind = "None" THEN "AttributeError" ELSE "saved"
    /\ UNCHANGED <<base_df, teams, weight, weighted_stats, filter_zeros, df, ret>>
    /\ UNCHANGED <<normVars, buildVars>>

Next == ExpWeights \/ BuildFeatures \/ ToParquet

Spec == InitFeatures /\ [][Next]_vars

\* ========================================================== normalizer
\* ------------------------------------------------------------ raw records
MaxOvers == 2

\* Python's None where the code holds a number
Null == -1

\* overno's default in scorecard_after_over
OverNo == 50

\* ball entries of a match file: runs.total, runs.extras, whether the entry
\* has a "wickets" key, and whether it is a legal delivery (a wide or a
\* no-ball is an entry of the over but not a legal ball)
Dot == [runs |-> [total |-> 0, extras |-> 0], wickets |-> FALSE, legal |-> TRUE]

Single == [runs |-> [total |-> 1, extras |-> 0], wickets |-> FALSE, legal |-> TRUE]

Wide == [runs |-> [total |-> 1, extras |-> 1], wickets |-> FALSE, legal |-> FALSE]

Out == [runs |-> [total |-> 0, extras |-> 0], wickets |-> TRUE, legal |-> TRUE]

\* an over of six legal balls, an over of seven entries (six legal balls and
\* a wide), and an over of three balls
OverSamples ==
    { <<Single, Dot, Single, Dot, Dot, Single>>,
      <<Single, Wide, Dot, Dot, Out, Dot, Dot>>,
      <<Single, Out, Single>> }

\* the overs of an innings: over k (from 0) with its ball entries
InningsOvers ==
    UNION {{[k \in 1..n |-> [over |-> k - 1, deliveries |-> balls[k]]] :
                balls \in [1..n -> OverSamples]} : n \in 1..MaxOvers}

TeamOrders == {<<"England", "India">>, <<"India", "England">>}

TossDecisions == {"bat", "field", "uncontested"}

Outcomes == {[winner |-> "England"], [winner |-> "India"], [result |-> "no result"]}

OtherTeam(t) == IF t = "England" THEN "India" ELSE "England"

\* the team batting in the first innings of the file
FirstBatting(toss_winner, decision) ==
    IF decision = "field" THEN OtherTeam(toss_winner) ELSE toss_winner

\* every city of the match files is a key of city-to-country.json
CityToCountry == [c \in {"Mumbai"} |-> "India"]

MatchRecords ==
    { [info |-> [teams |-> order, toss |-> [winner |-> tw, decision |-> dec],
                 outcome |-> oc, city |-> "Mumbai", dates |-> <<20220105>>,
                 event |-> [name |-> "Bilateral"]],
       innings |-> [k \in 1..Len(ovs) |->
                       [team |-> IF k = 1 THEN FirstBatting(tw, dec)
                                 ELSE OtherTeam(FirstBatting(tw, dec)),
                        overs |-> ovs[k]]]] :
        order \in TeamOrders, tw \in {"England", "India"}, dec \in TossDecisions,
        oc \in Outcomes,
        ovs \in UNION {[1..n -> InningsOvers] : n \in 1..2} }

\* ---------------------------------------------------------- Python values
\* a number, None (Null), True (1) or False (0)
PyTruthy(x) == x # Null /\ x # 0

PyOr(a, b) == IF PyTruthy(a) THEN a ELSE b

PyAnd(a, b) == IF PyTruthy(a) THEN b ELSE a

PyNot(a) == BoolInt(~PyTruthy(a))

\* int(x): int(None) raises TypeError
PyInt(x) ==
    IF x = Null THEN [raised |-> "TypeError", value |-> Null]
    ELSE [raised |-> "none", value |-> x]

\* teams.sort() on the two names
SortNames(ts) == IF Rank(ts[1]) <= Rank(ts[2]) THEN ts ELSE <<ts[2], ts[1]>>

\* --------------------------------------------------------- match_data_util
toss(md) ==
    [winner |-> BoolInt(md.info.toss.winner = md.info.teams[2]),
     decision |-> IF md.info.toss.decision = "bat" THEN 0
                  ELSE IF md.info.toss.decision = "field" THEN 1
                  ELSE Null]

ScoreExtend(acc, ball) ==
    [runs |-> acc.runs + ball.runs.total,
     wickets |-> acc.wickets + BoolInt(ball.wickets),
     extras |-> acc.extras + ball.runs.extras,
     deliveries |-> acc.deliveries + 1]

RECURSIVE ScoreTo(_, _)
ScoreTo(balls, i) ==
    IF i = 0 THEN [runs |-> 0, wickets |-> 0, extras |-> 0, deliveries |-> 0]
    ELSE ScoreExtend(ScoreTo(balls, i - 1), balls[i])

score_from_over(over) == ScoreTo(over.deliveries, Len(over.deliveries))

RECURSIVE SumField(_, _, _)
SumField(overs, field, i) ==
    IF i = 0 THEN 0 ELSE SumField(overs, field, i - 1) + score_from_over(overs[i])[field]

BelowOverNo(overs, overno) == SelectSeq(overs, LAMBDA o : o.over < overno)

\* the score dictionary of scorecard_after_over, overs filtered already
Scorecard(team, overs, overno) ==
    IF overno > 0
    THEN IF Len(overs) = 0
         THEN [raised |-> "IndexError"]
         ELSE [raised |-> "none",
               team |-> team,
               runs |-> SumField(overs, "runs", Len(overs)),
               wickets |-> SumField(overs, "wickets", Len(overs)),
               overs |-> <<Len(overs)
                             + (score_from_over(overs[Len(overs)]).deliveries \div 6) - 1,
                           score_from_over(overs[Len(overs)]).deliveries % 6>>,
               extras |-> SumField(overs, "extras", Len(overs))]
    ELSE [raised |-> "none", team |-> team, runs |-> 0, wickets |-> 0,
          overs |-> <<0, 0>>, extras |-> 0]

scorecard_after_over(md, innings_num, overno) ==
    IF Len(md.innings) >= innings_num
    THEN Scorecard(md.innings[innings_num].team,
                   BelowOverNo(md.innings[innings_num].overs, overno), overno)
    ELSE [raised |-> "KeyError"]

batting_first_tosswinner(w, d) == PyInt(w)

\* batfir = int((w or d) and (not w or not d))
batting_first(w, d) == PyInt(PyAnd(PyOr(w, d), PyOr(PyNot(w), PyNot(d))))

\* scores = {batfir: first innings, batsec: second innings}
ScoresDict(batfir, first, second) ==
    IF first.raised # "none" THEN [raised |-> first.raised]
    ELSE IF second.raised # "none" THEN [raised |-> second.raised]
    ELSE [raised |-> "none",
          scores |-> [n \in {0, 1} |-> IF n = PyNot(batfir) THEN second ELSE first]]

get_scores(md) ==
    IF batting_first(toss(md).winner, toss(md).decision).raised # "none"
    THEN [raised |-> batting_first(toss(md).winner, toss(md).decision).raised]
    ELSE IF Len(md.innings) = 2
         THEN ScoresDict(batting_first(toss(md).winner, toss(md).decision).value,
                         scorecard_after_over(md, 1, OverNo),
                         scorecard_after_over(md, 2, OverNo))
         ELSE [raised |-> "ValueError"]

results(md) ==
    IF "winner" \in DOMAIN md.info.outcome
    THEN BoolInt(md.info.outcome.winner = SortNames(md.info.teams)[2])
    ELSE Null

\* ------------------------------------------------------ build_base_dataset
\* the dictionary matchdict returns for a match with a winner
FlatRecord(md, match_id, city_to_country, scores) ==
    [match_id |-> match_id,
     country |-> city_to_country[md.info.city],
     start_date |-> md.info.dates[1],
     event |-> md.info.event.name,
     team_0 |-> md.info.teams[1],
     team_1 |-> md.info.teams[2],
     toss_winner |-> toss(md).winner,
     toss_decision |-> toss(md).decision,
     runs_0 |-> scores[0].runs,
     wickets_0 |-> scores[0].wickets,
     deliveries_0 |-> 6 * scores[0].overs[1] + scores[0].overs[2],
     runs_1 |-> scores[1].runs,
     wickets_1 |-> scores[1].wickets,
     deliveries_1 |-> 6 * scores[1].overs[1] + scores[1].overs[2],
     result |-> results(md)]

\* md is the record with its teams list sorted in place
MatchdictSorted(md, match_id, city_to_country) ==
    IF "winner" \notin DOMAIN md.info.outcome
    THEN [raised |-> "none", complete |-> FALSE,
          value |-> [match_id |-> match_id, result |-> md.info.outcome.result]]
    ELSE IF get_scores(md).raised # "none"
         THEN [raised |-> get_scores(md).raised]
         ELSE IF md.info.city \notin DOMAIN city_to_country
              THEN [raised |-> "KeyError"]
              ELSE [raised |-> "none", complete |-> TRUE,
                    value |-> FlatRecord(md, match_id, city_to_country,
                                         get_scores(md).scores)]

matchdict(md, match_id, city_to_country) ==
    MatchdictSorted([md EXCEPT !.info.teams = SortNames(@)], match_id, city_to_country)

\* ------------------------------------------------------ get_match_data_
InitNorm ==
    /\ match_data \in MatchRecords
    /\ rec = [raised |-> "pending"]
    /\ FeaturesIdle
    /\ BuildIdle

\* json.load of the file, then matchdict on the loaded record
GetMatchData ==
    /\ rec.raised = "pending"
    /\ rec' = matchdict(match_data, "1001", CityToCountry)
    /\ UNCHANGED <<match_data, featVars, buildVars>>

SpecNorm == InitNorm /\ [][GetMatchData]_vars

\* ============================================================= builder
MaxFiles == 3

MaxRuns == 2

\* base_df.start_date.dt.year >= 2022
CutoffYear == 2022

\* what get_match_data_ returns for a file, less the match_id: the record of
\* a match without a winner, or the flat record of a completed match (the
\* columns the builder reads; start_date is the date text, yyyymmdd)
FileContents ==
    {[result |-> "no result"]}
    \cup [start_date : {20211230, 20220105, 20220106},
          toss_decision : {0, Null},
          result : {0}]

WithId(id, content) ==
    [c \in DOMAIN content \cup {"match_id"} |->
        IF c = "match_id" THEN id ELSE content[c]]

\* the directories of match files: one file per match_id
Directories ==
    UNION {{{WithId(id, contents[id]) : id \in 1..n} :
                contents \in [1..n -> FileContents]} : n \in 1..MaxFiles}

\* the orders in which glob can enumerate the files of a directory
Enumerations(files) ==
    {order \in [1..Cardinality(files) -> files] :
        \A a, b \in 1..Cardinality(files) : a # b => order[a] # order[b]}

\* pd.DataFrame.from_records: one row per record, in the order given, over
\* the columns any record has; a row lacks (is NaN in) the others
from_records(records) ==
    [columns |-> UNION {DOMAIN records[i] : i \in 1..Len(records)}, rows |-> records]

\* NaN (a column the record lacks) or None (matchdict sets toss_decision only)
IsNa(row, column) ==
    \/ column \notin DOMAIN row
    \/ column = "toss_decision" /\ row[column] = Null

dropna(frame) ==
    [frame EXCEPT !.rows =
        SelectSeq(@, LAMBDA row : \A column \in frame.columns : ~IsNa(row, column))]

\* pd.to_datetime of the date text
to_datetime(text) ==
    [year |-> text \div 10000, month |-> (text \div 100) % 100, day |-> text % 100]

DateBefore(a, b) ==
    \/ a.year < b.year
    \/ a.year = b.year /\ a.month < b.month
    \/ a.year = b.year /\ a.month = b.month /\ a.day < b.day

\* the sorted rows with one more row put in: after every row not later than it
Insert(sorted, row) ==
    LET before == SelectSeq(sorted, LAMBDA r : ~DateBefore(row.start_date, r.start_date))
        after == SelectSeq(sorted, LAMBDA r : DateBefore(row.start_date, r.start_date))
    IN  before \o <<row>> \o after

RECURSIVE SortTo(_, _)
SortTo(rows, i) == IF i = 0 THEN <<>> ELSE Insert(SortTo(rows, i - 1), rows[i])

\* sort_values(by=["start_date"]): rows of equal start_date stay in the order
\* they came in (numpy sorts an array this short by insertion)
sort_values(frame) == [frame EXCEPT !.rows = SortTo(@, Len(@))]

\* main from to_datetime on, on the frame build_db returned
SortedRecent(built) ==
    LET dated == [built EXCEPT !.rows =
                     [i \in 1..Len(@) |->
                         [@[i] EXCEPT !.start_date = to_datetime(@)]]]
        sorted == sort_values(dated)
        recent == [sorted EXCEPT !.rows =
                      SelectSeq(@, LAMBDA row : row.start_date.year >= CutoffYear)]
    IN  \* reset_index, drop "index": the rows, numbered from 0 in this order
        recent.rows

\* build_db and the rest of main, on the files in the order glob gave them;
\* base_df.start_date raises when no record has the column
BaseDataset(json_files) ==
    IF "start_date" \in dropna(from_records(json_files)).columns
    THEN [raised |-> "none", rows |-> SortedRecent(dropna(from_records(json_files)))]
    ELSE [raised |-> "AttributeError", rows |-> <<>>]

InitBuild ==
    /\ raw_files \in Directories
    /\ outputs = <<>>
    /\ FeaturesIdle
    /\ NormIdle

\* one run of build_base_dataset.main
BuildMain ==
    /\ Len(outputs) < MaxRuns
    /\ \E json_files \in Enumerations(raw_files) :
          outputs' = Append(outputs, BaseDataset(json_files))
    /\ UNCHANGED <<raw_files, featVars, normVars>>

SpecBuild == InitBuild /\ [][BuildMain]_vars

\* ------------------------------------------------------------------ claims
Built == pc \in {"built", "AttributeError", "saved"}

Rows == 1..Len(base_df)

TeamAt(i, n) == IF n = 0 THEN base_df[i].team_0 ELSE base_df[i].team_1

Plays(X, j) == base_df[j].team_0 = X \/ base_df[j].team_1 = X

\* the side (0 or 1) team X occupies in row j
SideOf(X, j) == IF base_df[j].team_0 = X THEN 0 ELSE 1

RawOf(j, column, n) ==
    CASE column = "runs" -> IF n = 0 THEN base_df[j].runs_0 ELSE base_df[j].runs_1
      [] column = "wickets" -> IF n = 0 THEN base_df[j].wickets_0 ELSE base_df[j].wickets_1
      [] column = "deliveries" ->
            IF n = 0 THEN base_df[j].deliveries_0 ELSE base_df[j].deliveries_1

\* what match j adds to a statistic of team X, which played in it
MatchValue(X, stat, j) ==
    CASE stat = "runs_scored" -> RawOf(j, "runs", SideOf(X, j))
      [] stat = "wickets_lost" -> RawOf(j, "wickets", SideOf(X, j))
      [] stat = "deliveries_played" -> RawOf(j, "deliveries", SideOf(X, j))
      [] stat = "runs_conceded" -> RawOf(j, "runs", 1 - SideOf(X, j))
      [] stat = "wickets_taken" -> RawOf(j, "wickets", 1 - SideOf(X, j))
      [] stat = "deliveries_bowled" -> RawOf(j, "deliveries", 1 - SideOf(X, j))
      [] stat = "wins" -> IF base_df[j].result = SideOf(X, j) THEN 1 ELSE 0
      [] stat = "matches" -> 1

\* sum over the rows j <= upto in which X played of value_j / weight_j
RECURSIVE PriorQuotients(_, _, _)
PriorQuotients(X, stat, upto) ==
    IF upto = 0 THEN 0
    ELSE PriorQuotients(X, stat, upto - 1)
         + (IF Plays(X, upto)
            THEN (MatchValue(X, stat, upto) * Scale) \div weight[upto] ELSE 0)

\* weight_i * (sum over j < i, X played j, of value_j / weight_j)
PriorSum(X, stat, i) == weight[i] * PriorQuotients(X, stat, i - 1)

FirstAppearance(X, i) == Plays(X, i) /\ \A j \in 1..(i - 1) : ~Plays(X, j)

\* C1: for every team X of the teams list, every one of the eight aggregates
\* and every row i in which X plays, the value reported for X's side is built
\* only from the rows j < i in which X played (row i and later rows never
\* contribute), and it is exactly zero at X's first appearance.
C1_ExclusivePrefix ==
    Built =>
        \A i \in Rows : \A n \in {0, 1} :
            TeamAt(i, n) \in Range(teams) =>
                \A stat \in Stats :
                    /\ weighted_stats[stat][n][i] = PriorSum(TeamAt(i, n), stat, i)
                    /\ FirstAppearance(TeamAt(i, n), i) =>
                           weighted_stats[stat][n][i] = 0

\* a listed team plays its third match, after two earlier ones that left it
\* a non-zero total
C1_Witness ==
    /\ Built
    /\ \E i \in Rows : \E n \in {0, 1} :
          /\ TeamAt(i, n) \in Range(teams)
          /\ Cardinality({j \in 1..(i - 1) : Plays(TeamAt(i, n), j)}) >= 2
          /\ weighted_stats["runs_scored"][n][i] > 0
    /\ \E i \in Rows : \E n \in {0, 1} :
          /\ i > 1
          /\ TeamAt(i, n) \in Range(teams)
          /\ FirstAppearance(TeamAt(i, n), i)

\* 2^(-days / half_life) as x * Scale, for days a multiple of half_life
Decay(days) == Scale \div Pow2(days \div HalfLife)

\* sum over the rows j <= upto in which X played of
\* value_j * 2^(-(date_i - date_j) / half_life)
RECURSIVE GapSum(_, _, _, _, _)
GapSum(X, column, flip, i, upto) ==
    IF upto = 0 THEN 0
    ELSE GapSum(X, column, flip, i, upto - 1)
         + (IF Plays(X, upto)
            THEN RawOf(upto, column, IF flip THEN 1 - SideOf(X, upto) ELSE SideOf(X, upto))
                 * Decay(base_df[i].start_date - base_df[upto].start_date)
            ELSE 0)

Columns == {"runs", "wickets", "deliveries"}

C3_RoleSwap ==
    Built =>
        \A i \in Rows : \A n \in {0, 1} :
            /\ \A stat \in {"runs_conceded", "wickets_taken", "deliveries_bowled"} :
                  weighted_stats[stat][n][i]
                  = GapSum(TeamAt(i, n), bowling_side_dict(stat), TRUE, i, i - 1)
            /\ \A stat \in {"runs_scored", "wickets_lost", "deliveries_played"} :
                  weighted_stats[stat][n][i]
                  = GapSum(TeamAt(i, n), batting_side_dict(stat), FALSE, i, i - 1)

\* the aggregates the feature formulas divide by
Divisors == {"wickets_lost", "deliveries_played", "wickets_taken",
             "deliveries_bowled", "matches"}

\* C4: drop_zeros_in_denominator keeps a row if and only if, for both sides,
\* none of wickets_lost, deliveries_played, wickets_taken, deliveries_bowled
\* and matches is zero; the mask has one entry per row of the base table, and
\* every ratio build_features computes on a kept row has a non-zero divisor.
C4_ZeroDenominatorFilter ==
    Built =>
        /\ Len(filter_zeros) = Len(base_df)
        /\ \A i \in Rows :
              filter_zeros[i] <=>
                  \A n \in {0, 1} : \A stat \in Divisors : weighted_stats[stat][n][i] # 0
        /\ df.index = Mask([i \in Rows |-> i], filter_zeros)
        /\ \A c \in RatioColumns : \A n \in {0, 1} : \A r \in 1..Len(df.index) :
              df.ratios[c][n][r].kind = "finite"

\* a table with a kept row, and with a dropped row both of whose teams have
\* played before (one of the wicket totals is zero)
C4_Witness ==
    /\ Built
    /\ \E i \in Rows : filter_zeros[i]
    /\ \E i \in Rows :
          /\ ~filter_zeros[i]
          /\ weighted_stats["matches"][0][i] # 0
          /\ weighted_stats["matches"][1][i] # 0

\* the fraction c * a / b rounded to hundredths
Hundredths(c, a, b) == Round2(<<[num |-> c * a, den |-> b]>>)[1]

\* C5: build_features returns a table with one row per kept base-table row
\* and, for each side, the five ratio statistics batting_average, batting_sr,
\* bowling_average, bowling_economy and win_percentage, each computed from
\* the decayed aggregates of the same row.
C5_FeatureOutput ==
    Built =>
        /\ ret.kind = "DataFrame"
        /\ ret.index = Mask([i \in Rows |-> i], filter_zeros)
        /\ DOMAIN ret.ratios = RatioColumns \cup {"win_percentage"}
        /\ \A n \in {0, 1} : \A r \in 1..Len(ret.index) :
              LET i == ret.index[r]
                  ws == weighted_stats
              IN  /\ ret.ratios["batting_average"][n][r]
                     = Hundredths(1, ws["runs_scored"][n][i], ws["wickets_lost"][n][i])
                  /\ ret.ratios["batting_sr"][n][r]
                     = Hundredths(100, ws["runs_scored"][n][i],
                                  ws["deliveries_played"][n][i])
                  /\ ret.ratios["bowling_average"][n][r]
                     = Hundredths(1, ws["runs_conceded"][n][i], ws["wickets_taken"][n][i])
                  /\ ret.ratios["bowling_economy"][n][r]
                     = Hundredths(6, ws["runs_conceded"][n][i],
                                  ws["deliveries_bowled"][n][i])
                  /\ ret.ratios["win_percentage"][n][r]
                     = Hundredths(100, ws["wins"][n][i], ws["matches"][n][i])

\* the series weighted_cumsum computes for team X alone
SeriesOf(X, stat) ==
    LET mask_0 == Eq(Column(base_df, "team", 0), X)
        mask_1 == Eq(Column(base_df, "team", 1), X)
    IN  CASE stat \in {"runs_scored", "wickets_lost", "deliveries_played"} ->
                TeamSeries(Column(base_df, batting_side_dict(stat), 0),
                           Column(base_df, batting_side_dict(stat), 1),
                           weight, mask_0, mask_1)
          [] stat \in {"runs_conceded", "wickets_taken", "deliveries_bowled"} ->
                TeamSeries(Column(base_df, bowling_side_dict(stat), 1),
                           Column(base_df, bowling_side_dict(stat), 0),
                           weight, mask_0, mask_1)
          [] stat = "wins" ->
                TeamSeries(Ints(Eq(Column(base_df, "result", 0), 0)),
                           Ints(Eq(Column(base_df, "result", 0), 1)),
                           weight, mask_0, mask_1)
          [] stat = "matches" ->
                TeamSeries(Fill(1, Len(base_df)), Fill(1, Len(base_df)),
                           weight, mask_0, mask_1)

\* C8: for every row i and side n, every aggregate_n[i] is taken from the
\* cumulative series of exactly the team named in team_n of row i, for every
\* team that occurs in the table, listed or not.
C8_Reprojection ==
    Built =>
        \A i \in Rows : \A n \in {0, 1} : \A stat \in Stats :
            weighted_stats[stat][n][i] = SeriesOf(TeamAt(i, n), stat)[i]

\* ------------------------------------------------------ normalizer claims
Returned == rec.raised # "pending" /\ rec.raised # "idle"

HasWinner == "winner" \in DOMAIN match_data.info.outcome

\* the alphabetically second of the two teams of the file
AlphaSecond ==
    IF Rank(match_data.info.teams[1]) > Rank(match_data.info.teams[2])
    THEN match_data.info.teams[1] ELSE match_data.info.teams[2]

\* 1 when exactly one of {toss winner is team_1, decision is field} holds
TossXor ==
    BoolInt((match_data.info.toss.winner = AlphaSecond)
            # (match_data.info.toss.decision = "field"))

RECURSIVE BallsOf(_, _)
BallsOf(overs, i) ==
    IF i = 0 THEN <<>> ELSE BallsOf(overs, i - 1) \o overs[i].deliveries

\* all ball entries of innings k of the file
InningsBalls(k) == BallsOf(match_data.innings[k].overs, Len(match_data.innings[k].overs))

RECURSIVE TotalRuns(_, _)
TotalRuns(balls, i) == IF i = 0 THEN 0 ELSE TotalRuns(balls, i - 1) + balls[i].runs.total

InningsRuns(k) == TotalRuns(InningsBalls(k), Len(InningsBalls(k)))

InningsWickets(k) ==
    Cardinality({i \in 1..Len(InningsBalls(k)) : InningsBalls(k)[i].wickets})

\* the legal deliveries bowled in innings k
LegalDeliveries(k) ==
    Cardinality({i \in 1..Len(InningsBalls(k)) : InningsBalls(k)[i].legal})

\* 6 * overs + balls of the scorecard of innings k
ScorecardDeliveries(k) ==
    6 * scorecard_after_over(match_data, k, OverNo).overs[1]
    + scorecard_after_over(match_data, k, OverNo).overs[2]

SideOfRecord(v, n) ==
    IF n = 0
    THEN [runs |-> v.runs_0, wickets |-> v.wickets_0, deliveries |-> v.deliveries_0]
    ELSE [runs |-> v.runs_1, wickets |-> v.wickets_1, deliveries |-> v.deliveries_1]

\* C6: for a record with a winner and two innings whose toss decision is
\* neither "bat" nor "field", matchdict returns the flat record with
\* toss_decision null, whichever team won the toss; it does not fail.
C6_UnknownTossDecision ==
    (/\ Returned
     /\ HasWinner
     /\ Len(match_data.innings) = 2
     /\ match_data.info.toss.decision \notin {"bat", "field"})
    => /\ rec.raised = "none"
       /\ rec.value.toss_decision = Null

\* C9: for every innings of a normalized match, deliveries_n equals the
\* number of legal deliveries bowled in that innings, whatever the
\* distribution of ball entries over its overs.
C9_LegalDeliveries ==
    (Returned /\ rec.raised = "none" /\ rec.complete)
    => \/ /\ rec.value.deliveries_0 = LegalDeliveries(1)
          /\ rec.value.deliveries_1 = LegalDeliveries(2)
       \/ /\ rec.value.deliveries_0 = LegalDeliveries(2)
          /\ rec.value.deliveries_1 = LegalDeliveries(1)

\* C10: for a record with a winner, two innings and a toss decision of bat or
\* field, in either order of the raw teams list, matchdict stores the first
\* innings' runs, wickets and deliveries under side b = tossWinner XOR
\* tossDecision and the second innings' under 1 - b, with toss_winner and
\* team_0 < team_1 in the sorted team order.
C10_ScoreAttribution ==
    (/\ Returned
     /\ HasWinner
     /\ Len(match_data.innings) = 2
     /\ match_data.info.toss.decision \in {"bat", "field"})
    => /\ rec.raised = "none"
       /\ rec.complete
       /\ Rank(rec.value.team_0) < Rank(rec.value.team_1)
       /\ rec.value.toss_winner = BoolInt(match_data.info.toss.winner = rec.value.team_1)
       /\ SideOfRecord(rec.value, TossXor)
          = [runs |-> InningsRuns(1), wickets |-> InningsWickets(1),
             deliveries |-> ScorecardDeliveries(1)]
       /\ SideOfRecord(rec.value, 1 - TossXor)
          = [runs |-> InningsRuns(2), wickets |-> InningsWickets(2),
             deliveries |-> ScorecardDeliveries(2)]

\* a file that lists the teams in reverse alphabetical order, whose toss
\* was won by team_1 who chose to field (b = 0), with two innings of
\* different scores
C10_Witness ==
    /\ Returned
    /\ rec.raised = "none"
    /\ rec.complete
    /\ match_data.info.teams = <<"India", "England">>
    /\ match_data.info.toss = [winner |-> "India", decision |-> "field"]
    /\ InningsRuns(1) # InningsRuns(2)
    /\ InningsWickets(1) # InningsWickets(2)
    /\ rec.value.runs_0 = InningsRuns(1)

\* --------------------------------------------------------- builder claims
\* C7: building the base table twice from the same match files yields the
\* same output, rows in the same order, also when matches share a
\* start_date and whatever order the files are enumerated in.
C7_Deterministic ==
    \A a, b \in 1..Len(outputs) : outputs[a] = outputs[b]

====
